---- MODULE Spec2Model ----
(***************************************************************************)
(* examples/gcn_client_nccl_ns.py: the multi-process GCN training driver.  *)
(* The main block spawns one trainer process per entry of --gpu; every     *)
(* trainer initialises its process group, loads the data, builds the       *)
(* model, wraps it in DistributedDataParallel, trains n_epochs epochs over *)
(* NeighborSampler batches and, on rank 0, goes on to the inference pass.  *)
(*                                                                         *)
(* Tensors are abstracted to small integers: a parameter is a residue      *)
(* mod 3; a loss, a gradient, Adam's moment and the state of the torch     *)
(* random generator are residues mod 2.  The collectives of the process    *)
(* group (the parameter broadcast inside the DistributedDataParallel       *)
(* constructor, the gradient all-reduce inside backward) are joint actions *)
(* of all ranks.                                                           *)
(***************************************************************************)
EXTENDS Integers, Sequences, FiniteSets, TLC

VARIABLES args, dataset, mainpc, proc

vars == <<args, dataset, mainpc, proc>>

(* ------------------------------ bounds -------------------------------- *)

MaxEpochs == 2

MaxBatchSize == 2

\* The nodes of the graph in the store (node ids start at 0).
Nodes == {0, 1, 2}

\* Values of --gpu: one id, two ids, and the flag's default.
GpuArgs == { <<"0">>, <<"0", ",", "1">>, <<"c", "p", "u">> }

\* The ranks a process may have under GpuArgs.
AllRanks == {0, 1}

\* The datasets: labels, and the train and test masks of data.get_masks.
Datasets ==
  { [labels |-> [n \in Nodes |-> n % 2],
     train_mask |-> tm,
     test_mask |-> [n \in Nodes |-> 1 - tm[n]]] : tm \in [Nodes -> {0, 1}] }

(* ------------------------------ helpers ------------------------------- *)

RECURSIVE SumSet(_)
SumSet(S) ==
  IF S = {} THEN 0 ELSE LET x == CHOOSE y \in S : TRUE IN x + SumSet(S \ {x})

RECURSIVE SumSeq(_)
SumSeq(s) ==
  IF s = <<>> THEN 0 ELSE Head(s) + SumSeq(Tail(s))

\* str.split(','): the substrings between the commas, empty ones included.
RECURSIVE Split(_)
Split(s) ==
  IF s = <<>> THEN << <<>> >>
  ELSE LET rest == Split(Tail(s))
       IN IF Head(s) = "," THEN << <<>> >> \o rest
          ELSE << <<Head(s)>> \o Head(rest) >> \o Tail(rest)

\* gpu_num = len(args.gpu.split(','))
GpuNum(gpu) == Len(Split(gpu))

\* np.nonzero(mask)[0]: the indices whose mask entry is not zero.
NonZero(mask) == { n \in DOMAIN mask : mask[n] # 0 }

\* torch.cuda.set_device(rank)
SetDevice(rank) == rank

\* Variant: every .cuda() call lands on the default device.
DefaultDevice(rank) == 0

\* model.cuda(rank), device_ids=[rank], torch.device(rank), label.cuda(rank)
CudaTarget(rank) == rank

\* GCNSampling(...): the initial weights are drawn from the generator that
\* torch.manual_seed(rank) seeded.
InitParams(seed) == << seed % 3, (seed + 1) % 3 >>

\* Variant: the model is not wrapped, no parameter is broadcast.
NoBroadcast(p, r) == p[r].params

\* DistributedDataParallel(model): every rank receives rank 0's parameters.
DDPBroadcast(p, r) == p[0].params

\* Variant: every rank samples its own shard of the training set.
ShardedSeeds(train_nid, rank, world_size) ==
  { n \in train_nid : n % world_size = rank }

\* seed_nodes=train_nid: the sampler of every rank iterates the whole
\* training set.
SeedNodes(train_nid, rank, world_size) == train_nid

\* One batch of the shuffled sampler: batch_size of the seeds left, or all
\* of them when fewer are left.
Batches(left, batch_size) ==
  { b \in SUBSET left :
      Cardinality(b) = (IF Cardinality(left) < batch_size
                        THEN Cardinality(left) ELSE batch_size) }

\* pred = model(nf); loss = loss_fcn(pred, label): the loss of one batch on
\* one rank depends on the weights, the batch and the dropout draw.
LossOf(params, nf, rng) == (SumSeq(params) + SumSet(nf) + rng) % 2

\* Variant: the gradients are not cleared.
KeepGrad(g) == g

\* optimizer.zero_grad()
ZeroGrad(g) == 0

\* loss.backward() under DistributedDataParallel: the gradients of all
\* ranks are averaged.
AllReduceMean(p) ==
  LET R == DOMAIN p
      RECURSIVE Total(_)
      Total(S) == IF S = {} THEN 0
                  ELSE LET x == CHOOSE y \in S : TRUE
                       IN p[x].loss + Total(S \ {x})
  IN (Total(R) + Cardinality(R) - 1) \div Cardinality(R)

\* .grad accumulates what backward computes.
Accumulate(g, avg) == g + avg

\* Adam: the moment estimate, then every weight moved by it.
AdamMoment(m, g) == (m + g) % 2

AdamStep(params, m) == [i \in DOMAIN params |-> (params[i] + 3 - m) % 3]

\* Variant: the rank test is dropped.
AnyRank(rank) == TRUE

\* if rank == 0
IsRank0(rank) == rank = 0

\* Variant: one epoch too many.
InRangeInclusive(epoch, n_epochs) == epoch <= n_epochs

\* for epoch in range(args.n_epochs)
InRange(epoch, n_epochs) == epoch < n_epochs

\* step = 0 at the head of an epoch
ResetStep(step) == 0

\* The names bound when line 102 and line 125 of trainer are evaluated:
\* the module's imports and definitions, and trainer's parameters and
\* locals.
BoundNames ==
  { "os", "sys", "module_name", "modpath", "idx", "argparse", "time", "torch",
    "nn", "dist", "mp", "F", "np", "dgl", "GCNSampling", "GCNInfer", "data",
    "init_process", "trainer",
    "rank", "world_size", "args", "backend", "dataname", "g", "labels",
    "n_classes", "train_mask", "val_mask", "test_mask", "train_nid",
    "test_nid", "model", "loss_fcn", "optimizer", "ctx", "epoch_dur",
    "batch_dur", "epoch", "epoch_start_time", "step", "nf",
    "batch_start_time", "batch_nids", "label", "pred", "loss" }

\* zip(infer_model.parameters(), model.module.parameters()); copy_
ZipCopy(infer, trained) ==
  [i \in DOMAIN infer |-> IF i \in DOMAIN trained THEN trained[i] ELSE infer[i]]

\* pred.argmax(dim=1) of the inference model on one seed node.
Predict(params, n) == (SumSeq(params) + n) % 2

(* --------------------------- process state ---------------------------- *)

Ranks == DOMAIN proc

Terminal == {"done", "error", "killed"}

\* The statements that call into the frameworks, and so may raise.
RaisingPcs ==
  {"init", "load", "model", "ddp", "sample", "copy", "forward", "loss",
   "zero", "backward", "optstep"}

\* The canonical order of one training step (lines 81-90).
StepOrder == <<"copy", "forward", "loss", "zero_grad", "backward", "step">>

NewProc(rank, world_size) ==
  [ rank |-> rank, world_size |-> world_size, pc |-> "init",
    device |-> -1, used |-> {}, rng |-> -1,
    train_nid |-> {}, test_nid |-> {},
    params |-> <<>>, ddp |-> FALSE, opt_m |-> 0, grad |-> 0,
    epoch |-> 0, step |-> 0, iter |-> {}, nf |-> {}, loss |-> 0,
    printed |-> 0, epoch_dur |-> 0,
    infer_params |-> <<>>, num_acc |-> 0, reported |-> <<>>,
    exc |-> "None",
    \* history
    trained |-> FALSE, ops |-> <<>>, batches |-> <<>>,
    n_batches |-> 0, n_steps |-> 0, batch_grad |-> 0 ]

Init ==
  /\ args \in [gpu : GpuArgs, n_epochs : 0..MaxEpochs, batch_size : 1..MaxBatchSize]
  /\ dataset \in Datasets
  /\ mainpc = "main"
  /\ proc = [r \in {} |-> 0]

(* ------------------------------ actions ------------------------------- *)

\* __main__: mp.spawn(trainer, args=(gpu_num, args), nprocs=gpu_num)
Spawn ==
  /\ mainpc = "main"
  /\ mainpc' = "spawned"
  /\ proc' = [r \in 0..(GpuNum(args.gpu) - 1) |-> NewProc(r, GpuNum(args.gpu))]
  /\ UNCHANGED <<args, dataset>>

\* init_process
InitProcess(r) ==
  /\ mainpc = "spawned" /\ proc[r].pc = "init"
  /\ proc' = [proc EXCEPT ![r] =
       [@ EXCEPT !.device = SetDevice(proc[r].rank), !.rng = proc[r].rank % 2,
                 !.pc = "load"]]
  /\ UNCHANGED <<args, dataset, mainpc>>

\* load data
LoadData(r) ==
  /\ mainpc = "spawned" /\ proc[r].pc = "load"
  /\ proc' = [proc EXCEPT ![r] =
       [@ EXCEPT !.train_nid = NonZero(dataset.train_mask),
                 !.test_nid = NonZero(dataset.test_mask),
                 !.pc = "model"]]
  /\ UNCHANGED <<args, dataset, mainpc>>

\* prepare model: GCNSampling, Adam, model.cuda(rank)
BuildModel(r) ==
  /\ mainpc = "spawned" /\ proc[r].pc = "model"
  /\ proc' = [proc EXCEPT ![r] =
       [@ EXCEPT !.params = InitParams(proc[r].rng), !.opt_m = 0,
                 !.used = @ \cup {CudaTarget(proc[r].rank)},
                 !.pc = "ddp"]]
  /\ UNCHANGED <<args, dataset, mainpc>>

\* DistributedDataParallel(model, device_ids=[rank]); ctx = torch.device(rank)
DDPWrap ==
  /\ mainpc = "spawned"
  /\ \A r \in Ranks : proc[r].pc = "ddp"
  /\ proc' = [r \in Ranks |->
       [proc[r] EXCEPT !.params = DDPBroadcast(proc, r), !.ddp = TRUE,
                       !.used = @ \cup {CudaTarget(proc[r].rank)},
                       !.pc = "epoch"]]
  /\ UNCHANGED <<args, dataset, mainpc>>

\* for epoch in range(args.n_epochs): model.train(); step = 0; the sampler
EpochHead(r) ==
  /\ mainpc = "spawned" /\ proc[r].pc = "epoch"
  /\ proc' = [proc EXCEPT ![r] =
       IF InRange(@.epoch, args.n_epochs)
       THEN [@ EXCEPT !.step = ResetStep(@),
                      !.iter = SeedNodes(proc[r].train_nid, proc[r].rank, proc[r].world_size),
                      !.batches = <<>>, !.pc = "sample"]
       ELSE [@ EXCEPT !.trained = TRUE, !.pc = "post"]]
  /\ UNCHANGED <<args, dataset, mainpc>>

\* for nf in NeighborSampler(..., shuffle=True, seed_nodes=train_nid)
Sample(r) ==
  /\ mainpc = "spawned" /\ proc[r].pc = "sample"
  /\ IF proc[r].iter = {}
     THEN proc' = [proc EXCEPT ![r].pc = "epoch_end"]
     ELSE \E b \in Batches(proc[r].iter, args.batch_size) :
            proc' = [proc EXCEPT ![r] =
              [@ EXCEPT !.nf = b, !.iter = @ \ b, !.ops = <<>>,
                        !.batches = Append(@, b),
                        !.n_batches = @ + 1, !.pc = "copy"]]
  /\ UNCHANGED <<args, dataset, mainpc>>

\* nf.copy_from_parent(ctx=ctx); label = labels[batch_nids].cuda(rank)
Copy(r) ==
  /\ mainpc = "spawned" /\ proc[r].pc = "copy"
  /\ proc' = [proc EXCEPT ![r] =
       [@ EXCEPT !.ops = Append(@, "copy"),
                 !.used = @ \cup {CudaTarget(proc[r].rank)},
                 !.pc = "forward"]]
  /\ UNCHANGED <<args, dataset, mainpc>>

\* pred = model(nf): dropout draws from the rank's generator
Forward(r) ==
  /\ mainpc = "spawned" /\ proc[r].pc = "forward"
  /\ proc' = [proc EXCEPT ![r] =
       [@ EXCEPT !.ops = Append(@, "forward"),
                 !.rng = (@ + 1) % 2,
                 !.pc = "loss"]]
  /\ UNCHANGED <<args, dataset, mainpc>>

\* loss = loss_fcn(pred, label)
Loss(r) ==
  /\ mainpc = "spawned" /\ proc[r].pc = "loss"
  /\ proc' = [proc EXCEPT ![r] =
       [@ EXCEPT !.ops = Append(@, "loss"),
                 !.loss = LossOf(proc[r].params, proc[r].nf, proc[r].rng),
                 !.pc = "zero"]]
  /\ UNCHANGED <<args, dataset, mainpc>>

\* optimizer.zero_grad()
ZeroGradStep(r) ==
  /\ mainpc = "spawned" /\ proc[r].pc = "zero"
  /\ proc' = [proc EXCEPT ![r] =
       [@ EXCEPT !.ops = Append(@, "zero_grad"),
                 !.grad = ZeroGrad(@),
                 !.pc = "backward"]]
  /\ UNCHANGED <<args, dataset, mainpc>>

\* loss.backward(): the gradient all-reduce across all ranks
Backward ==
  /\ mainpc = "spawned"
  /\ \A r \in Ranks : proc[r].pc = "backward"
  /\ proc' = [r \in Ranks |->
       [proc[r] EXCEPT !.ops = Append(@, "backward"),
                       !.grad = Accumulate(@, AllReduceMean(proc)),
                       !.batch_grad = AllReduceMean(proc),
                       !.pc = "optstep"]]
  /\ UNCHANGED <<args, dataset, mainpc>>

\* optimizer.step()
OptStep(r) ==
  /\ mainpc = "spawned" /\ proc[r].pc = "optstep"
  /\ proc' = [proc EXCEPT ![r] =
       [@ EXCEPT !.ops = Append(@, "step"),
                 !.opt_m = AdamMoment(@, proc[r].grad),
                 !.params = AdamStep(@, AdamMoment(proc[r].opt_m, proc[r].grad)),
                 !.n_steps = @ + 1,
                 !.pc = "log"]]
  /\ UNCHANGED <<args, dataset, mainpc>>

\* step += 1; if rank == 0 and step % 1 == 0: print(... loss ...)
Log(r) ==
  /\ mainpc = "spawned" /\ proc[r].pc = "log"
  /\ proc' = [proc EXCEPT ![r] =
       [@ EXCEPT !.step = @ + 1,
                 !.printed = IF IsRank0(proc[r].rank) /\ (proc[r].step + 1) % 1 = 0
                             THEN @ + 1 ELSE @,
                 !.pc = "sample"]]
  /\ UNCHANGED <<args, dataset, mainpc>>

\* if rank == 0: epoch_dur.append(...); the next epoch
EpochEnd(r) ==
  /\ mainpc = "spawned" /\ proc[r].pc = "epoch_end"
  /\ proc' = [proc EXCEPT ![r] =
       [@ EXCEPT !.epoch_dur = IF IsRank0(proc[r].rank) THEN @ + 1 ELSE @,
                 !.epoch = @ + 1,
                 !.pc = "epoch"]]
  /\ UNCHANGED <<args, dataset, mainpc>>

\* if rank == 0: the inference model, the copy of the trained weights, the
\* inference pass over test_nid and the accuracy report.  GCNInfer(in_feats,
\* ...) reads the name in_feats and the report reads n_test_samples.
PostTrain(r) ==
  /\ mainpc = "spawned" /\ proc[r].pc = "post"
  /\ proc' = [proc EXCEPT ![r] =
       IF ~IsRank0(@.rank) THEN [@ EXCEPT !.pc = "done"]
       ELSE IF "in_feats" \notin BoundNames
       THEN [@ EXCEPT !.exc = "NameError", !.pc = "error"]
       ELSE LET ip  == ZipCopy(<<0, 0>>, @.params)
                acc == Cardinality({ n \in @.test_nid :
                                       Predict(ip, n) = dataset.labels[n] })
            IN IF "n_test_samples" \notin BoundNames
               THEN [@ EXCEPT !.infer_params = ip, !.num_acc = acc,
                              !.used = @ \cup {CudaTarget(proc[r].rank)},
                              !.exc = "NameError", !.pc = "error"]
               ELSE [@ EXCEPT !.infer_params = ip, !.num_acc = acc,
                              !.used = @ \cup {CudaTarget(proc[r].rank)},
                              !.reported = <<acc>>, !.pc = "done"]]
  /\ UNCHANGED <<args, dataset, mainpc>>

\* Variant: the exception is caught and the statement tried again.
RaiseCaught(r) ==
  /\ mainpc = "spawned" /\ proc[r].pc \in RaisingPcs /\ proc[r].exc = "None"
  /\ proc' = [proc EXCEPT ![r].exc = "RuntimeError"]
  /\ UNCHANGED <<args, dataset, mainpc>>

\* A framework call raises; trainer and init_process hold no try/except.
Raise(r) ==
  /\ mainpc = "spawned" /\ proc[r].pc \in RaisingPcs
  /\ proc' = [proc EXCEPT ![r] =
       [@ EXCEPT !.exc = "RuntimeError", !.pc = "error"]]
  /\ UNCHANGED <<args, dataset, mainpc>>

\* mp.spawn(..., join=True): once a process has failed the others are
\* terminated.
Terminate(r) ==
  /\ mainpc = "spawned" /\ proc[r].pc \notin Terminal
  /\ \E q \in Ranks : proc[q].pc = "error"
  /\ proc' = [proc EXCEPT ![r].pc = "killed"]
  /\ UNCHANGED <<args, dataset, mainpc>>

\* mp.spawn(..., join=True) returns, or raises the failed process's exception.
Join ==
  /\ mainpc = "spawned"
  /\ \A r \in Ranks : proc[r].pc \in Terminal
  /\ mainpc' = IF \A r \in Ranks : proc[r].pc = "done" THEN "exit" ELSE "raised"
  /\ UNCHANGED <<args, dataset, proc>>

\* The steps of one trainer process, failures aside.
Step(r) ==
  \/ InitProcess(r)
  \/ LoadData(r)
  \/ BuildModel(r)
  \/ EpochHead(r)
  \/ Sample(r)
  \/ Copy(r)
  \/ Forward(r)
  \/ Loss(r)
  \/ ZeroGradStep(r)
  \/ OptStep(r)
  \/ Log(r)
  \/ EpochEnd(r)
  \/ PostTrain(r)

Next ==
  \/ Spawn
  \/ DDPWrap
  \/ Backward
  \/ Join
  \/ \E r \in AllRanks : r \in Ranks /\ Step(r)
  \/ \E r \in AllRanks : r \in Ranks /\ Raise(r)
  \/ \E r \in AllRanks : r \in Ranks /\ Terminate(r)

Spec == Init /\ [][Next]_vars

\* The scheduler runs every process that can take a step, the collectives
\* complete once every rank has entered them, and mp.spawn keeps joining.
FairSpec ==
  /\ Spec
  /\ WF_vars(Spawn) /\ WF_vars(DDPWrap) /\ WF_vars(Backward) /\ WF_vars(Join)
  /\ \A r \in AllRanks : WF_vars(r \in Ranks /\ Step(r))
  /\ \A r \in AllRanks : WF_vars(r \in Ranks /\ Terminate(r))

(* ------------------------------- claims ------------------------------- *)

\* The training nodes, read off the mask.
TrainSet == { n \in Nodes : dataset.train_mask[n] = 1 }

\* The test nodes, read off the mask.
TestSet == { n \in Nodes : dataset.test_mask[n] = 1 }

\* ceil(|train_nid| / batch_size)
StepsPerEpoch ==
  (Cardinality(TrainSet) + args.batch_size - 1) \div args.batch_size

\* The number of commas of --gpu.
Commas == Cardinality({ i \in 1..Len(args.gpu) : args.gpu[i] = "," })

IsPrefix(s, t) == Len(s) <= Len(t) /\ \A i \in 1..Len(s) : s[i] = t[i]

\* C1: once rank 0 has completed the training loop it runs the inference
\* pass and reaches the 'Test Accuracy' report: it enters no error state
\* after the loop, and when it has ended normally the accuracy is reported.
C1_TrainedThenReported ==
  \A r \in Ranks :
    (proc[r].rank = 0 /\ proc[r].trained) =>
       /\ proc[r].pc \in {"post", "done", "killed"}
       /\ (proc[r].pc = "done" => proc[r].reported # <<>>)

\* C2: replica consistency: any two ranks whose model is wrapped and that
\* have completed the same number of optimizer steps hold identical
\* parameters.
C2_ReplicaConsistency ==
  \A r, q \in Ranks :
    (proc[r].ddp /\ proc[q].ddp /\ proc[r].n_steps = proc[q].n_steps) =>
       proc[r].params = proc[q].params

\* C2 witness: two ranks, seeded differently and on different batches, have
\* both completed their second optimizer step.
C2_Witness ==
  /\ Cardinality(Ranks) = 2
  /\ proc[0].pc = "log" /\ proc[1].pc = "log"
  /\ proc[0].n_steps = 2 /\ proc[1].n_steps = 2
  /\ proc[0].nf # proc[1].nf
  /\ proc[0].rng # proc[1].rng

\* C3: one process per comma-separated entry of --gpu, each given
\* world_size = n, ranks pairwise distinct and covering 0..n-1, and every
\* process selects and uses only the device whose index is its rank, so no
\* two processes use the same device index.
C3_OneDevicePerProcess ==
  mainpc # "main" =>
    /\ Cardinality(Ranks) = Commas + 1
    /\ { proc[r].rank : r \in Ranks } = 0..Commas
    /\ \A r \in Ranks :
         /\ proc[r].world_size = Commas + 1
         /\ proc[r].device \in {-1, proc[r].rank}
         /\ proc[r].used \subseteq {proc[r].rank}
         /\ (proc[r].pc \notin {"init", "error", "killed"} => proc[r].device = proc[r].rank)
    /\ \A r, q \in Ranks :
         r # q => /\ proc[r].rank # proc[q].rank
                  /\ proc[r].used \cap proc[q].used = {}
                  /\ (proc[r].device # -1 => proc[r].device # proc[q].device)

\* C3 witness: two processes, each has selected and used its device.
C3_Witness ==
  /\ Cardinality(Ranks) = 2
  /\ proc[0].device = 0 /\ proc[1].device = 1
  /\ proc[0].used = {0} /\ proc[1].used = {1}
  /\ proc[0].pc = "copy" /\ proc[1].pc = "copy"

\* C4: the accuracy rank 0 reports is the number of test nodes whose
\* predicted class equals their label over the number of test nodes: when
\* rank 0 has ended after training, that value has been reported, and
\* num_acc lies between 0 and the number of test nodes.
C4_ReportedAccuracy ==
  \A r \in Ranks :
    (proc[r].rank = 0 /\ proc[r].trained /\ proc[r].pc \in {"done", "error"}) =>
       /\ proc[r].reported # <<>>
       /\ proc[r].num_acc =
            Cardinality({ n \in TestSet :
                            Predict(proc[r].infer_params, n) = dataset.labels[n] })
       /\ proc[r].reported = <<proc[r].num_acc, Cardinality(TestSet)>>
       /\ proc[r].num_acc \in 0..Cardinality(TestSet)

\* C5: no error handling: a process that raised is in the error state, an
\* errored process never takes another step (no retry, no further training
\* or inference), and the main block never ends normally after a raise.
C5_NoErrorHandling ==
  [][ /\ \A r \in Ranks :
           /\ proc[r].exc # "None" => proc[r].pc = "error"
           /\ proc'[r].exc # "None" => proc'[r].pc = "error"
           /\ proc[r].pc = "error" => proc'[r] = proc[r]
      /\ mainpc' = "exit" => \A r \in Ranks : proc'[r].exc = "None" /\ proc'[r].pc = "done"
    ]_vars

\* C5 witness: a process raised in the middle of its second training step
\* and the main block ended with that exception.
C5_Witness ==
  /\ mainpc = "raised"
  /\ \E r \in Ranks :
       /\ proc[r].pc = "error" /\ proc[r].exc = "RuntimeError"
       /\ proc[r].n_steps = 1 /\ proc[r].ops = <<"copy", "forward">>

\* C6: no collective deadlock: all ranks perform the same number of
\* backward calls in every epoch, no rank waits in the gradient all-reduce
\* for a peer that has left the training loop, and under fair scheduling
\* every rank eventually is out of the training loop for good (so none
\* blocks forever in the all-reduce).
C6_NoCollectiveDeadlock ==
  /\ [](\A r, q \in Ranks :
          /\ (proc[r].pc = "backward" => ~proc[q].trained)
          /\ (proc[r].pc = "epoch_end" /\ proc[q].pc = "epoch_end"
                /\ proc[r].epoch = proc[q].epoch) => proc[r].step = proc[q].step)
  /\ <>[](mainpc # "main" /\ \A r \in Ranks : proc[r].pc \in {"post"} \cup Terminal)

\* C6 witness: two ranks on different batches both wait in the all-reduce
\* of the last step of their second epoch.
C6_Witness ==
  /\ Cardinality(Ranks) = 2
  /\ proc[0].pc = "backward" /\ proc[1].pc = "backward"
  /\ proc[0].epoch = 1 /\ proc[1].epoch = 1
  /\ proc[0].iter = {} /\ proc[1].iter = {}
  /\ proc[0].nf # proc[1].nf

\* C7: in every training step the operations occur in the order copy,
\* forward, loss, zero_grad, backward, step; one optimizer.step per sampled
\* batch; the gradient the step applies is that of the batch alone.
C7_StepOrder ==
  \A r \in Ranks :
    LET p == proc[r] IN
    /\ IsPrefix(p.ops, StepOrder)
    /\ p.pc = "optstep" => p.ops = SubSeq(StepOrder, 1, 5) /\ p.grad = p.batch_grad
    /\ p.pc = "log" => p.ops = StepOrder
    /\ p.pc = "zero" => p.loss = LossOf(p.params, p.nf, p.rng)
    /\ p.n_steps <= p.n_batches /\ p.n_batches <= p.n_steps + 1
    /\ p.pc \in {"log", "sample", "epoch_end", "epoch", "post", "done"} =>
         p.n_steps = p.n_batches

\* C7 witness: a rank has completed its second step with a non-zero
\* gradient after a first step whose gradient was non-zero too.
C7_Witness ==
  \E r \in Ranks :
    /\ proc[r].pc = "log" /\ proc[r].n_steps = 2
    /\ proc[r].batch_grad > 0 /\ proc[r].opt_m # proc[r].batch_grad

C9_OnlyRank0Reports ==
  [][ \A r \in Ranks \ {0} :
        /\ proc'[r].printed = 0 /\ proc'[r].epoch_dur = 0
        /\ proc'[r].infer_params = <<>> /\ proc'[r].num_acc = 0
        /\ proc'[r].reported = <<>>
        /\ proc[r].pc = "post" =>
             /\ ENABLED PostTrain(r)
             /\ \/ proc'[r] = proc[r]
                \/ proc'[r] = [proc[r] EXCEPT !.pc = "done"]
                \/ proc'[r] = [proc[r] EXCEPT !.pc = "killed"]
        /\ proc[r].pc = "done" => proc'[r] = proc[r]
    ]_vars

\* C9 witness: rank 1 has ended after two epochs while rank 0 has printed
\* its loss lines and epoch durations.
C9_Witness ==
  /\ Cardinality(Ranks) = 2
  /\ proc[1].pc = "done" /\ proc[1].trained /\ proc[1].n_steps >= 2
  /\ proc[1].epoch = 2
  /\ proc[0].printed >= 2 /\ proc[0].epoch_dur = 2

\* C10: inference uses the trained weights: when rank 0 has ended after
\* training, every parameter of the inference model holds the value of the
\* corresponding trained parameter as the last optimizer.step left it.
C10_InferenceUsesTrainedWeights ==
  \A r \in Ranks :
    (proc[r].rank = 0 /\ proc[r].trained /\ proc[r].pc \in {"done", "error"}) =>
       /\ Len(proc[r].infer_params) = Len(proc[r].params)
       /\ proc[r].infer_params = proc[r].params

====
